---- MODULE Spec2Model ----
(***************************************************************************)
(* DXW.py: a DX-cluster listener that keeps one telnet session open,       *)
(* parses VE7CC spot lines, filters them against watched targets, gates    *)
(* them through an in-memory dedup map and forwards them to Telegram.      *)
(*                                                                         *)
(* Text is modelled as a sequence of one-character strings, so that        *)
(* upper-casing, stripping, splitting and substring search are computed    *)
(* as the Python code computes them.  Wall-clock time is counted in whole  *)
(* minutes.                                                                *)
(***************************************************************************)
EXTENDS Integers, Sequences, FiniteSets, TLC

\* ------------------------------------------------------------------ text

LowerLetters == <<"a","b","c","d","e","f","g","h","i","j","k","l","m",
                  "n","o","p","q","r","s","t","u","v","w","x","y","z">>

UpperLetters == <<"A","B","C","D","E","F","G","H","I","J","K","L","M",
                  "N","O","P","Q","R","S","T","U","V","W","X","Y","Z">>

Digits == <<"0","1","2","3","4","5","6","7","8","9">>

Range(s) == {s[i] : i \in DOMAIN s}

\* str.upper() on one character.
UpperChar(ch) ==
    IF \E i \in DOMAIN LowerLetters : LowerLetters[i] = ch
    THEN UpperLetters[CHOOSE i \in DOMAIN LowerLetters : LowerLetters[i] = ch]
    ELSE ch

\* str.upper()
upper(s) == [i \in 1..Len(s) |-> UpperChar(s[i])]

\* Characters str.strip() removes.
Whitespace == {" ", "\t", "\r", "\n"}

RECURSIVE lstrip(_)
lstrip(s) ==
    IF s # <<>> /\ Head(s) \in Whitespace THEN lstrip(Tail(s)) ELSE s

RECURSIVE rstrip(_)
rstrip(s) ==
    IF s # <<>> /\ s[Len(s)] \in Whitespace
    THEN rstrip(SubSeq(s, 1, Len(s) - 1))
    ELSE s

\* str.strip()
strip(s) == rstrip(lstrip(s))

\* str.startswith(prefix)
startswith(s, prefix) ==
    Len(s) >= Len(prefix) /\ SubSeq(s, 1, Len(prefix)) = prefix

\* `sub in s` on strings.
Contains(s, sub) ==
    \E i \in 1..(Len(s) - Len(sub) + 1) : SubSeq(s, i, i + Len(sub) - 1) = sub

\* str.split(sep) for a one-character separator: the fields between the
\* separators, empty fields kept.
RECURSIVE SplitFrom(_, _, _)
SplitFrom(s, sep, cur) ==
    IF s = <<>> THEN <<cur>>
    ELSE IF Head(s) = sep THEN <<cur>> \o SplitFrom(Tail(s), sep, <<>>)
    ELSE SplitFrom(Tail(s), sep, Append(cur, Head(s)))

split(s, sep) == SplitFrom(s, sep, <<>>)

\* `x or default` on strings: the empty string is falsy.
OrElse(x, default) == IF x = <<>> THEN default ELSE x

\* The sentinel "?".
Unknown == <<"?">>

\* Python's None.
None == [none |-> TRUE]

\* ---------------------------------------------------- pure functions

\* Characters kept by the regular expression [^A-Z0-9/] of normalize_call.
CallChars == Range(UpperLetters) \cup Range(Digits) \cup {"/"}

\* normalize_call removing the characters before upper-casing: lower-case
\* letters are lost.
normalize_call_strip_first(c) == upper(SelectSeq(c, LAMBDA ch : ch \in CallChars))

normalize_call(c) == SelectSeq(upper(c), LAMBDA ch : ch \in CallChars)

\* float(freq_str) for plain decimal text: optional surrounding whitespace,
\* an optional sign, digits with at most one decimal point and at least one
\* digit.  Anything else raises ValueError (None here).  The value is kept
\* as its integer part and whether a non-zero fractional digit follows.
RECURSIVE DigitsValue(_, _)
DigitsValue(s, acc) ==
    IF s = <<>> THEN acc
    ELSE DigitsValue(Tail(s),
                     10 * acc + ((CHOOSE i \in DOMAIN Digits : Digits[i] = Head(s)) - 1))

ParseFloat(freq_str) ==
    LET t    == strip(freq_str)
        neg  == t # <<>> /\ Head(t) = "-"
        body == IF t # <<>> /\ Head(t) \in {"-", "+"} THEN Tail(t) ELSE t
        dots == {i \in DOMAIN body : body[i] = "."}
        ip   == IF dots = {} THEN body
                ELSE SubSeq(body, 1, (CHOOSE i \in dots : TRUE) - 1)
        fp   == IF dots = {} THEN <<>>
                ELSE SubSeq(body, (CHOOSE i \in dots : TRUE) + 1, Len(body))
    IN  IF \/ Cardinality(dots) > 1
           \/ ip \o fp = <<>>
           \/ \E i \in DOMAIN (ip \o fp) : (ip \o fp)[i] \notin Range(Digits)
        THEN None
        ELSE [neg  |-> neg,
              int  |-> DigitsValue(ip, 0),
              frac |-> \E i \in DOMAIN fp : fp[i] # "0"]

\* The table of freq_to_band: (low, high, band), inclusive, in kHz.
bands ==
    << <<1800, 2000, <<"1","6","0","m">> >>,
       <<3500, 3800, <<"8","0","m">> >>,
       <<5300, 5400, <<"6","0","m">> >>,
       <<7000, 7200, <<"4","0","m">> >>,
       <<10100, 10150, <<"3","0","m">> >>,
       <<14000, 14350, <<"2","0","m">> >>,
       <<18068, 18168, <<"1","7","m">> >>,
       <<21000, 21450, <<"1","5","m">> >>,
       <<24890, 24990, <<"1","2","m">> >>,
       <<28000, 29700, <<"1","0","m">> >>,
       <<50000, 54000, <<"6","m">> >> >>

\* low <= freq < high: the upper end of a range left out.
InRange_open(f, low, high) ==
    /\ ~f.neg
    /\ f.int >= low
    /\ f.int < high

\* low <= freq <= high for a parsed float.
InRange(f, low, high) ==
    /\ ~f.neg
    /\ f.int >= low
    /\ \/ f.int < high
       \/ f.int = high /\ ~f.frac

freq_to_band(freq_str) ==
    LET f == ParseFloat(freq_str)
    IN  IF f = None THEN Unknown
        ELSE LET hits == {i \in DOMAIN bands : InRange(f, bands[i][1], bands[i][2])}
             IN  IF hits = {} THEN Unknown
                 ELSE bands[CHOOSE i \in hits : \A j \in hits : i <= j][3]

\* extract_mode looking for FT8 before CW.
extract_mode_ft8_first(info_str) ==
    LET info == upper(info_str)
    IN  IF Contains(info, <<"F","T","8">>) THEN <<"F","T","8">>
        ELSE IF Contains(info, <<"C","W">>) THEN <<"C","W">>
        ELSE IF Contains(info, <<"R","T","T","Y">>) THEN <<"R","T","T","Y">>
        ELSE IF \/ Contains(info, <<"S","S","B">>)
                \/ Contains(info, <<"U","S","B">>)
                \/ Contains(info, <<"L","S","B">>)
             THEN <<"S","S","B">>
        ELSE Unknown

extract_mode(info_str) ==
    LET info == upper(info_str)
    IN  IF Contains(info, <<"C","W">>) THEN <<"C","W">>
        ELSE IF Contains(info, <<"F","T","8">>) THEN <<"F","T","8">>
        ELSE IF Contains(info, <<"R","T","T","Y">>) THEN <<"R","T","T","Y">>
        ELSE IF \/ Contains(info, <<"S","S","B">>)
                \/ Contains(info, <<"U","S","B">>)
                \/ Contains(info, <<"L","S","B">>)
             THEN <<"S","S","B">>
        ELSE Unknown

\* parse_ve7cc_line without the test of the field count, a missing field
\* read as empty.
parse_ve7cc_line_unchecked(line) ==
    LET parts == split(line, "^")
        part(i) == IF i <= Len(parts) THEN parts[i] ELSE <<>>
    IN  [freq     |-> OrElse(part(2), Unknown),
         call     |-> OrElse(part(3), Unknown),
         datetime |-> part(4) \o <<" ">> \o part(5),
         info     |-> part(6),
         spotter  |-> OrElse(part(7), Unknown),
         band     |-> freq_to_band(OrElse(part(2), Unknown)),
         mode     |-> extract_mode(part(6))]

parse_ve7cc_line(line) ==
    LET parts == split(line, "^")
    IN  IF Len(parts) < 7 THEN None
        ELSE [freq     |-> OrElse(parts[2], Unknown),
              call     |-> OrElse(parts[3], Unknown),
              datetime |-> parts[4] \o <<" ">> \o parts[5],
              info     |-> parts[6],
              spotter  |-> OrElse(parts[7], Unknown),
              band     |-> freq_to_band(OrElse(parts[2], Unknown)),
              mode     |-> extract_mode(parts[6])]

\* A dict is a function from its keys; `key in d` and d.get(key, default).
Has(d, key) == key \in DOMAIN d

Get(d, key, default) == IF Has(d, key) THEN d[key] ELSE default

\* d[key] = value on a dict.
Put(d, key, value) == [k \in DOMAIN d \cup {key} |-> IF k = key THEN value ELSE d[k]]

\* matches_target comparing the band and the mode as written, without
\* upper-casing them.
matches_target_cased(parsed, target) ==
    LET call_n == normalize_call(parsed.call)
        t_call == normalize_call(Get(target, "call", <<>>))
        tbands == Get(target, "bands", <<>>)
        tmodes == Get(target, "modes", <<>>)
    IN  IF call_n # t_call THEN FALSE
        ELSE IF tbands # <<>> /\ parsed.band \notin Range(tbands) THEN FALSE
        ELSE IF tmodes # <<>> /\ parsed.mode \notin Range(tmodes) THEN FALSE
        ELSE TRUE

matches_target(parsed, target) ==
    LET call_n == normalize_call(parsed.call)
        t_call == normalize_call(Get(target, "call", <<>>))
        tbands == Get(target, "bands", <<>>)
        tmodes == Get(target, "modes", <<>>)
    IN  IF call_n # t_call THEN FALSE
        ELSE IF tbands # <<>> /\ upper(parsed.band) \notin {upper(tbands[i]) : i \in DOMAIN tbands}
             THEN FALSE
        ELSE IF tmodes # <<>> /\ upper(parsed.mode) \notin {upper(tmodes[i]) : i \in DOMAIN tmodes}
             THEN FALSE
        ELSE TRUE

\* ------------------------------------------------------ configuration

\* Bound of the wall clock, in minutes, for a configuration with targets.
MaxTime == 2

\* Bound of the wall clock, in minutes, for a configuration with an empty
\* target list (no dispatch): long enough for the keepalive and watchdog
\* intervals to pass.
MaxIdleTime == 16

\* Longest time one send_telegram call may block, in minutes.
MaxSendDelay == 1

\* timedelta(minutes=10): the keepalive interval.
keepalive_interval == 10

\* timedelta(minutes=15): the watchdog interval.
max_inactive == 15

\* read_until(b"\n", timeout=60): one minute.
ReadTimeout == 1

\* time.sleep(10) of the exception handler, in seconds.
BackoffSeconds == 10

\* time.sleep(1) after the login line, in seconds.
LoginPauseSeconds == 1

\* cfg.get("dedup_minutes", 30)
DefaultDedupMinutes == 30

\* cfg.get("dxcluster_call", "NOCALL")
NOCALL == "NOCALL"

VK3ABC == <<"V","K","3","A","B","C">>

K1B == <<"K","1","B">>

\* The watched targets of the configurations: two rules that both match a
\* VK3ABC spot on 20m FT8 (the second has no band or mode filter and an
\* unnormalized call), and one rule for another call.
Targets ==
    << [call |-> VK3ABC, bands |-> << <<"2","0","m">> >>, modes |-> << <<"F","T","8">> >>],
       [call |-> <<"v","k","3","-","a","b","c">>],
       [call |-> K1B, bands |-> <<>>, modes |-> <<>>] >>

\* A JSON value that is a list, or a scalar (send_telegram tests which).
JsonList(items) == [list |-> TRUE, items |-> items]

JsonScalar(v) == [list |-> FALSE, value |-> v]

\* A complete config.json with dedup window w; chat_id is a list of two
\* recipients, or a single recipient when w is 0.
FullConfig(w) ==
    [dxcluster_host |-> "dxc.example.org",
     dxcluster_call |-> "N9SM",
     telegram_token |-> "token",
     chat_id        |-> IF w = 0 THEN JsonScalar(111) ELSE JsonList(<<111, 222>>),
     targets        |-> Targets,
     dedup_minutes  |-> w]

\* A config.json with the required keys only and an empty target list.
IdleConfig ==
    [dxcluster_host |-> "dxc.example.org",
     telegram_token |-> "token",
     chat_id        |-> JsonScalar(111),
     targets        |-> <<>>]

\* The configuration of the end-to-end scenario: one target, VK3ABC on 20m
\* in FT8, one recipient, and the default dedup window.
E2EConfig ==
    [dxcluster_host |-> "dxc.example.org",
     telegram_token |-> "token",
     chat_id        |-> JsonScalar(111),
     targets        |-> << Targets[1] >>]

\* A configuration whose targets name no usable call: the call entry is
\* missing, empty, or made of characters normalize_call removes.
BlankCallConfig ==
    [dxcluster_host |-> "dxc.example.org",
     telegram_token |-> "token",
     chat_id        |-> JsonScalar(111),
     targets        |-> << [modes |-> << <<"F","T","8">> >>],
                           [call |-> <<>>, bands |-> << <<"2","0","m">> >>],
                           [call |-> <<"-","?">>] >>,
     dedup_minutes  |-> 1]

\* config.json without key k.
Without(c, k) == [x \in DOMAIN c \ {k} |-> c[x]]

\* The dedup windows of the complete configurations.
DedupChoices == {0, 1, 2}

\* The settings the spec calls required.
RequiredKeys == {"dxcluster_host", "telegram_token", "chat_id", "targets"}

Configs ==
    {FullConfig(w) : w \in DedupChoices}
    \cup {Without(FullConfig(2), k) : k \in RequiredKeys}
    \cup {IdleConfig, E2EConfig, BlankCallConfig}

\* Lines the cluster may deliver.
InboundLines ==
    { <<"\r","\n">>,
      <<"D","X"," ","d","e","\n">>,
      <<"C","C","^","1","^","2","\n">>,
      <<"C","C","^","1","4","0","7","4",".","0","^","V","K","3","A","B","C","^",
        "2","0","2","4","-","0","1","-","0","1","^","1","0",":","0","0","^",
        "F","T","8"," ","C","Q","^","W","1","A","W","\r","\n">>,
      <<"C","C","^","7","0","1","0","^","V","K","3","A","B","C","^","d","^","t","^",
        "c","w","^","W","1","\n">>,
      <<"C","C","^","7","0","1","0","^","k","1","b","^","d","^","t","^",
        "u","s","b","^","W","1","\n">>,
      <<" ","C","C","^","7","0","1","0","^","k","1","b","^","d","^","t","^",
        "u","s","b","^","W","1","\n">>,
      <<"C","C","^","7","0","1","0","^","^","d","^","t","^",
        "c","w","^","W","1","\n">> }

\* ---------------------------------------------------------------- state

VARIABLES
    cfg,            \* the loaded config.json (a dict)
    pc,             \* where the control loop is
    clock,          \* datetime.utcnow(), in minutes
    tn,             \* the Telnet object bound to tn: unbound, open, nosocket, closed
    wire,           \* the commands written on the current session, in order
    last_activity,  \* last_activity of dxcluster_listener
    now,            \* now of dxcluster_listener (the clock reading after the last read)
    parsed,         \* the spot the for loop is dispatching (None outside the loop)
    ti,             \* index of the target the for loop is at (1 outside the loop)
    last_spots,     \* the dedup dict: normalized call -> time of the last allowed send
    gate,           \* the should_send call of the last step: call, time, whether the
                    \* call had a record, answer (None: no call)
    posts,          \* the requests.post attempts of the last step, in order
    pause,          \* seconds passed to time.sleep in the last step (0: no sleep)
    exc,            \* the exception raised in the last step ("none": none)
    retried,        \* whether the exception handler has run
    last_line,      \* the clock when the session last delivered a line (or was logged in)
    notified,       \* normalized call -> time of its last Notifier invocation
    undelivered,    \* the calls whose last Notifier invocation failed for a recipient
    line_sends,     \* Notifier invocations made so far by the for loop (0 outside it)
    text,           \* text of dxcluster_listener: the stripped line of this iteration
                    \* (empty once the for loop or the timers are done with it)
    carried,        \* last_spots as it was when the exception handler last ran
    arg,            \* the arguments of a pure function applied on its own
    result          \* what it returned (None: not applied yet)

vars == <<cfg, pc, clock, tn, wire, last_activity, now, parsed, ti, last_spots,
          gate, posts, pause, exc, retried, last_line, notified, undelivered,
          line_sends, text, carried, arg, result>>

\* The locals dxcluster_listener reads from cfg (lines 121-127).
targets == cfg.targets

chat == cfg.chat_id

dedup_min == Get(cfg, "dedup_minutes", DefaultDedupMinutes)

mycall == Get(cfg, "dxcluster_call", NOCALL)

\* cfg.get("dxcluster_host") is None
HostIsNone == ~Has(cfg, "dxcluster_host")

\* The bound of the clock for the loaded configuration.
Horizon == IF Get(cfg, "targets", <<>>) = <<>> THEN MaxIdleTime ELSE MaxTime

\* A command as written: its text and the newline.
Command(cmd) == <<cmd, "\n">>

\* The login sequence with the login line written after the first
\* configuration command.
LoginCommands_swapped ==
    <<Command("set/skimmer"), Command(mycall), Command("set/ft8"),
      Command("set/announce on"), Command("set/ve7cc 1")>>

\* The login line and the four configuration commands, in the order written.
LoginCommands ==
    <<Command(mycall), Command("set/skimmer"), Command("set/ft8"),
      Command("set/announce on"), Command("set/ve7cc 1")>>

KeepaliveCommand == Command("sh/dx")

\* The statements inside the try block of the outer loop (lines 130-185).
TryBlock == {"connect", "login", "read", "targets", "timers"}

\* The handler with the try block ending before the inner loop: a failure of
\* a read or of the keepalive write leaves dxcluster_listener.
Catch_login_only(loc) == IF loc \in {"connect", "login"} THEN "except" ELSE "crashed"

\* Where an exception raised at loc goes: `except Exception` of the outer loop
\* catches it inside the try block; elsewhere it leaves dxcluster_listener.
Catch(loc) == IF loc \in TryBlock THEN "except" ELSE "crashed"

\* No should_send, post, sleep or exception in this step.
Quiet == gate' = None /\ posts' = <<>> /\ pause' = 0 /\ exc' = "none"

Init ==
    /\ cfg \in Configs
    /\ pc = "start"
    /\ clock = 0
    /\ tn = "unbound"
    /\ wire = <<>>
    /\ last_activity = 0
    /\ now = 0
    /\ parsed = None
    /\ ti = 1
    /\ last_spots = [k \in {} |-> 0]
    /\ gate = None
    /\ posts = <<>>
    /\ pause = 0
    /\ exc = "none"
    /\ retried = FALSE
    /\ last_line = 0
    /\ notified = [k \in {} |-> 0]
    /\ undelivered = {}
    /\ line_sends = 0
    /\ text = <<>>
    /\ carried = [k \in {} |-> 0]
    /\ arg = None
    /\ result = None

\* main: load_config, then the prologue of dxcluster_listener.  cfg[...] raises
\* KeyError on a missing key, cfg.get(...) does not.
StartUp ==
    /\ pc = "start"
    /\ IF Has(cfg, "telegram_token") /\ Has(cfg, "chat_id") /\ Has(cfg, "targets")
       THEN pc' = "connect" /\ exc' = "none"
       ELSE pc' = Catch("start") /\ exc' = "KeyError"
    /\ gate' = None /\ posts' = <<>> /\ pause' = 0
    /\ UNCHANGED <<arg, result, text, carried, cfg, retried, clock, tn, wire, last_activity, now, parsed, ti, last_spots,
                   last_line, notified, undelivered, line_sends>>

\* A connect that starts every session with an empty dedup dict.
ConnectOk_fresh_map ==
    /\ pc = "connect"
    /\ tn' = IF HostIsNone THEN "nosocket" ELSE "open"
    /\ wire' = <<>>
    /\ pc' = "login"
    /\ last_spots' = [k \in {} |-> 0]
    /\ Quiet
    /\ UNCHANGED <<arg, result, text, carried, cfg, retried, clock, last_activity, now,
                   parsed, ti, last_line, notified, undelivered, line_sends>>

\* telnetlib.Telnet(host, port, timeout=60) returns.  With host None the
\* constructor opens no socket.
ConnectOk ==
    /\ pc = "connect"
    /\ tn' = IF HostIsNone THEN "nosocket" ELSE "open"
    /\ wire' = <<>>
    /\ pc' = "login"
    /\ Quiet
    /\ UNCHANGED <<arg, result, text, carried, cfg, retried, clock, last_activity, now, parsed, ti, last_spots,
                   last_line, notified, undelivered, line_sends>>

\* telnetlib.Telnet(host, port, timeout=60) raises: tn is not rebound.
ConnectFail ==
    /\ pc = "connect"
    /\ ~HostIsNone
    /\ pc' = Catch("connect")
    /\ exc' = "connect"
    /\ gate' = None /\ posts' = <<>> /\ pause' = 0
    /\ UNCHANGED <<arg, result, text, carried, cfg, retried, clock, tn, wire, last_activity, now, parsed, ti, last_spots,
                   last_line, notified, undelivered, line_sends>>

\* One tn.write of the login sequence succeeds; time.sleep(1) follows the
\* login line, and last_activity is initialised after the last command.
LoginWrite ==
    /\ pc = "login"
    /\ tn = "open"
    /\ wire' = Append(wire, LoginCommands[Len(wire) + 1])
    /\ pause' = IF Len(wire) = 0 THEN LoginPauseSeconds ELSE 0
    /\ IF Len(wire') = Len(LoginCommands)
       THEN pc' = "read" /\ last_activity' = clock /\ last_line' = clock
       ELSE pc' = "login" /\ UNCHANGED <<last_activity, last_line>>
    /\ gate' = None /\ posts' = <<>> /\ exc' = "none"
    /\ UNCHANGED <<arg, result, text, carried, cfg, retried, clock, tn, now, parsed, ti, last_spots,
                   notified, undelivered, line_sends>>

\* A tn.write of the login sequence raises (always, when there is no socket).
LoginWriteFail ==
    /\ pc = "login"
    /\ tn \in {"open", "nosocket"}
    /\ pc' = Catch("login")
    /\ exc' = "write"
    /\ gate' = None /\ posts' = <<>> /\ pause' = 0
    /\ UNCHANGED <<arg, result, text, carried, cfg, retried, clock, tn, wire, last_activity, now, parsed, ti, last_spots,
                   last_line, notified, undelivered, line_sends>>

\* read_until times out with no data: `if line` is false.
ReadEmpty ==
    /\ pc = "read"
    /\ clock + ReadTimeout <= Horizon
    /\ clock' = clock + ReadTimeout
    /\ now' = clock'
    /\ pc' = "timers"
    /\ line_sends' = 0
    /\ Quiet
    /\ UNCHANGED <<arg, result, text, carried, cfg, retried, tn, wire, last_activity, parsed, ti, last_spots,
                   last_line, notified, undelivered>>

\* read_until delivers a line after d minutes; lines 147-155 up to the for loop.
ReadLine ==
    /\ pc = "read"
    /\ \E line \in InboundLines, d \in 0..ReadTimeout :
         LET stripped == strip(line)
             spot == IF startswith(stripped, <<"C","C">>)
                     THEN parse_ve7cc_line(stripped) ELSE None
         IN  /\ clock + d <= Horizon
             /\ clock' = clock + d
             /\ now' = clock'
             /\ last_line' = clock'
             /\ IF stripped = <<>>
                THEN pc' = "read" /\ UNCHANGED <<last_activity, parsed, ti, text>>
                ELSE /\ last_activity' = now'
                     /\ text' = stripped
                     /\ IF spot # None /\ targets # <<>>
                        THEN pc' = "targets" /\ parsed' = spot /\ ti' = 1
                        ELSE pc' = "timers" /\ UNCHANGED <<parsed, ti>>
    /\ line_sends' = 0
    /\ Quiet
    /\ UNCHANGED <<arg, result, carried, cfg, retried, tn, wire, last_spots, notified, undelivered>>

\* read_until raises (EOFError, OSError).
ReadFail ==
    /\ pc = "read"
    /\ pc' = Catch("read")
    /\ exc' = "read"
    /\ gate' = None /\ posts' = <<>> /\ pause' = 0
    /\ UNCHANGED <<arg, result, text, carried, cfg, retried, clock, tn, wire, last_activity, now, parsed, ti, last_spots,
                   last_line, notified, undelivered, line_sends>>

\* should_send with the comparison turned into <=: a spot exactly one window
\* after the last send is still suppressed.
should_send_inclusive(spots, call, window, t) ==
    IF Has(spots, call) /\ t - spots[call] <= window
    THEN [ret |-> FALSE, last_spots |-> spots]
    ELSE [ret |-> TRUE, last_spots |-> Put(spots, call, t)]

\* should_send recording the call before the test, so that a suppressed spot
\* restarts the cooldown.
should_send_touch(spots, call, window, t) ==
    IF Has(spots, call) /\ t - spots[call] < window
    THEN [ret |-> FALSE, last_spots |-> Put(spots, call, t)]
    ELSE [ret |-> TRUE, last_spots |-> Put(spots, call, t)]

\* should_send with the window taken in seconds, timedelta(seconds=dedup_min):
\* less than a minute for the windows modelled.
should_send_seconds(spots, call, window, t) ==
    IF Has(spots, call) /\ t - spots[call] < 0
    THEN [ret |-> FALSE, last_spots |-> spots]
    ELSE [ret |-> TRUE, last_spots |-> Put(spots, call, t)]

\* should_send(call, dedup_min) when utcnow() reads t: the answer, and
\* last_spots afterwards.  A datetime is always truthy, so `if last_time`
\* asks whether the call has a record.
should_send(spots, call, window, t) ==
    IF Has(spots, call) /\ t - spots[call] < window
    THEN [ret |-> FALSE, last_spots |-> spots]
    ELSE [ret |-> TRUE, last_spots |-> Put(spots, call, t)]

\* if not isinstance(chat_ids, list): chat_ids = [chat_ids]
ChatList(chat_ids) == IF chat_ids.list THEN chat_ids.items ELSE <<chat_ids.value>>

\* send_telegram without the try/except around requests.post: the first
\* failure leaves the function, and the recipients after it are not tried.
RECURSIVE PostFrom_unguarded(_, _, _, _)
PostFrom_unguarded(ids, msg, outcome, i) ==
    IF i > Len(ids) THEN [attempts |-> <<>>, raised |-> FALSE]
    ELSE IF outcome[i] = "fail"
         THEN [attempts |-> <<[chat_id |-> ids[i], text |-> msg, result |-> "fail"]>>,
               raised   |-> TRUE]
         ELSE LET rest == PostFrom_unguarded(ids, msg, outcome, i + 1)
              IN  [attempts |-> <<[chat_id |-> ids[i], text |-> msg, result |-> "ok"]>>
                                \o rest.attempts,
                   raised   |-> rest.raised]

\* The for loop of send_telegram from recipient i on: each requests.post
\* either returns or raises, and the except clause logs and goes on.  The
\* result is the attempts made and whether an exception left the function.
RECURSIVE PostFrom(_, _, _, _)
PostFrom(ids, msg, outcome, i) ==
    IF i > Len(ids) THEN [attempts |-> <<>>, raised |-> FALSE]
    ELSE LET rest == PostFrom(ids, msg, outcome, i + 1)
         IN  [attempts |-> <<[chat_id |-> ids[i], text |-> msg, result |-> outcome[i]]>>
                           \o rest.attempts,
              raised   |-> rest.raised]

send_telegram(chat_ids, msg, outcome) == PostFrom(ChatList(chat_ids), msg, outcome, 1)

\* msg of the for loop (lines 160-168): the fields of the spot, in the order
\* the f-string lays them out.
Message(spot) ==
    [Station  |-> spot.call,
     Freq     |-> spot.freq,
     Band     |-> spot.band,
     Mode     |-> spot.mode,
     DateTime |-> spot.datetime,
     Comment  |-> spot.info,
     Spotter  |-> spot.spotter]

\* Where the for loop over targets goes after target i.
AfterTarget(i) == IF i < Len(targets) THEN "targets" ELSE "timers"

\* One pass of the for loop (lines 156-171) for a target that does not match,
\* or that matches and is suppressed by should_send.
TargetSkip ==
    /\ pc = "targets"
    /\ LET call_n == normalize_call(parsed.call)
           match  == matches_target(parsed, targets[ti])
           answer == should_send(last_spots, call_n, dedup_min, clock)
       IN  /\ ~(match /\ answer.ret)
           /\ gate' = IF match
                      THEN [call |-> call_n, at |-> clock,
                            known |-> Has(last_spots, call_n), ret |-> answer.ret]
                      ELSE None
           /\ last_spots' = IF match THEN answer.last_spots ELSE last_spots
    /\ pc' = AfterTarget(ti)
    /\ IF ti < Len(targets)
       THEN ti' = ti + 1 /\ UNCHANGED <<parsed, line_sends, text>>
       ELSE ti' = 1 /\ parsed' = None /\ line_sends' = 0 /\ text' = <<>>
    /\ posts' = <<>> /\ pause' = 0 /\ exc' = "none"
    /\ UNCHANGED <<arg, result, carried, cfg, retried, clock, tn, wire, last_activity, now,
                   last_line, notified, undelivered>>

\* One pass of the for loop for a target that matches and is allowed:
\* should_send records the call, then send_telegram blocks for d minutes.
TargetSend ==
    /\ pc = "targets"
    /\ LET call_n == normalize_call(parsed.call)
           answer == should_send(last_spots, call_n, dedup_min, clock)
       IN  /\ matches_target(parsed, targets[ti])
           /\ answer.ret
           /\ gate' = [call |-> call_n, at |-> clock,
                       known |-> Has(last_spots, call_n), ret |-> answer.ret]
           /\ last_spots' = answer.last_spots
           /\ notified' = Put(notified, call_n, clock)
           /\ \E outcome \in [1..Len(ChatList(chat)) -> {"ok", "fail"}], d \in 0..MaxSendDelay :
                LET sent == send_telegram(chat, Message(parsed), outcome)
                IN  /\ clock + d <= Horizon
                    /\ clock' = clock + d
                    /\ posts' = sent.attempts
                    /\ undelivered' =
                         IF \E i \in DOMAIN sent.attempts : sent.attempts[i].result = "fail"
                         THEN undelivered \cup {call_n}
                         ELSE undelivered \ {call_n}
                    /\ IF sent.raised
                       THEN pc' = Catch("targets") /\ exc' = "post"
                       ELSE pc' = AfterTarget(ti) /\ exc' = "none"
                    /\ IF ~sent.raised /\ ti < Len(targets)
                       THEN /\ ti' = ti + 1 /\ parsed' = parsed /\ text' = text
                            /\ line_sends' = line_sends + 1
                       ELSE ti' = 1 /\ parsed' = None /\ line_sends' = 0 /\ text' = <<>>
    /\ pause' = 0
    /\ UNCHANGED <<arg, result, carried, cfg, retried, tn, wire, last_activity, now, last_line>>

\* Lines 175-185 when no write fails: the keepalive, then the watchdog.
Timers ==
    /\ pc = "timers"
    /\ LET keepalive == now - last_activity >= keepalive_interval
           activity  == IF keepalive THEN now ELSE last_activity
           watchdog  == now - activity >= max_inactive
       IN  /\ wire' = IF keepalive THEN Append(wire, KeepaliveCommand) ELSE wire
           /\ last_activity' = activity
           /\ IF watchdog
              THEN tn' = "closed" /\ pc' = "connect"
              ELSE tn' = tn /\ pc' = "read"
    /\ Quiet
    /\ text' = <<>>
    /\ UNCHANGED <<arg, result, carried, cfg, retried, clock, now, parsed, ti, last_spots, last_line,
                   notified, undelivered, line_sends>>

\* The keepalive write raises.
KeepaliveFail ==
    /\ pc = "timers"
    /\ now - last_activity >= keepalive_interval
    /\ pc' = Catch("timers")
    /\ exc' = "write"
    /\ gate' = None /\ posts' = <<>> /\ pause' = 0
    /\ text' = <<>>
    /\ UNCHANGED <<arg, result, carried, cfg, retried, clock, tn, wire, last_activity, now, parsed, ti, last_spots,
                   last_line, notified, undelivered, line_sends>>

\* The handler without its time.sleep(10).
Except_no_pause ==
    /\ pc = "except"
    /\ pause' = 0
    /\ retried' = TRUE
    /\ carried' = last_spots
    /\ pc' = "connect"
    /\ gate' = None /\ posts' = <<>> /\ exc' = "none"
    /\ UNCHANGED <<arg, result, text, cfg, clock, tn, wire, last_activity, now, parsed, ti, last_spots,
                   last_line, notified, undelivered, line_sends>>

\* except Exception: log, time.sleep(10), and the outer loop goes round.
Except ==
    /\ pc = "except"
    /\ \E d \in 0..1 :
         /\ clock + d <= Horizon
         /\ clock' = clock + d
    /\ pause' = BackoffSeconds
    /\ retried' = TRUE
    /\ carried' = last_spots
    /\ pc' = "connect"
    /\ gate' = None /\ posts' = <<>> /\ exc' = "none"
    /\ UNCHANGED <<arg, result, text, cfg, tn, wire, last_activity, now, parsed, ti, last_spots,
                   last_line, notified, undelivered, line_sends>>

Next ==
    \/ StartUp
    \/ ConnectOk
    \/ ConnectFail
    \/ LoginWrite
    \/ LoginWriteFail
    \/ ReadEmpty
    \/ ReadLine
    \/ ReadFail
    \/ TargetSkip
    \/ TargetSend
    \/ Timers
    \/ KeepaliveFail
    \/ Except

Spec == Init /\ [][Next]_vars

\* time.sleep(10) returns: the handler always completes.
FairSpec == Spec /\ WF_vars(Except)

\* ------------------------------------------- the pure functions alone

\* Longest call sign text given to normalize_call.
MaxCallLen == 3

\* Most words in a comment given to extract_mode.
MaxWords == 3

\* How far from the end points of a range the frequencies given to
\* freq_to_band lie, in kHz.
MaxOffset == 1

\* All texts over the characters S of length at most n.
Seqs(S, n) == UNION {[1..k -> S] : k \in 0..n}

\* Characters of the call sign texts: a lower-case and an upper-case letter,
\* a digit, the slash, and three characters normalize_call removes.
CallAlphabet == {"v", "K", "3", "/", "-", " ", "?"}

NormalizeInputs ==
    {[fn |-> "normalize_call", x |-> c] : c \in Seqs(CallAlphabet, MaxCallLen)}

\* The words comments are made of: the keywords in either case, a blank and
\* another letter.
Words ==
    { <<"c","w">>, <<"F","T","8">>, <<"r","t","t","y">>, <<"s","s","b">>,
      <<"U","S","B">>, <<"l","s","b">>, <<" ">>, <<"x">> }

RECURSIVE Join(_)
Join(ws) == IF ws = <<>> THEN <<>> ELSE Head(ws) \o Join(Tail(ws))

ModeInputs ==
    {[fn |-> "extract_mode", x |-> Join(ws)] : ws \in Seqs(Words, MaxWords)}

\* str(n) for a natural number.
RECURSIVE ToText(_)
ToText(n) ==
    IF n < 10 THEN <<Digits[n + 1]>>
    ELSE Append(ToText(n \div 10), Digits[(n % 10) + 1])

\* Whole frequencies at and around the end points of the ranges, and 0.
FreqValues ==
    {0} \cup {bands[i][j] + o : i \in DOMAIN bands, j \in {1, 2}, o \in (0 - MaxOffset)..MaxOffset}

\* Frequency texts that float() accepts, with what they denote: a whole
\* number of kHz, an optional sign and an optional fraction.
FreqTexts ==
    {[text  |-> sign \o ToText(n) \o frac,
      valid |-> TRUE,
      n     |-> n,
      neg   |-> sign = <<"-">>,
      frac  |-> frac = <<".","5">>] :
        n \in FreqValues, sign \in {<<>>, <<"-">>}, frac \in {<<>>, <<".","0">>, <<".","5">>}}

\* Frequency texts for which float() raises ValueError.
JunkTexts ==
    {[text |-> t, valid |-> FALSE, n |-> 0, neg |-> FALSE, frac |-> FALSE] :
        t \in { <<>>, <<"?">>, <<".">>, <<"1","4","O","7","4">>, <<"1",".","2",".","3">>,
                <<"1","4","0","7","4","k","H","z">>, <<"-">> }}

BandInputs == {[fn |-> "freq_to_band", x |-> f] : f \in FreqTexts \cup JunkTexts}

\* A dict with the entries given: each of co, bo, mo is empty (no such key)
\* or holds the value of the key.
TargetOf(co, bo, mo) ==
    [k \in (IF co = <<>> THEN {} ELSE {"call"})
           \cup (IF bo = <<>> THEN {} ELSE {"bands"})
           \cup (IF mo = <<>> THEN {} ELSE {"modes"}) |->
        IF k = "call" THEN co[1] ELSE IF k = "bands" THEN bo[1] ELSE mo[1]]

SpotCalls == { VK3ABC, <<"v","k","3","-","a","b","c">>, K1B, Unknown }

SpotBands == { <<"2","0","m">>, <<"4","0","m">>, Unknown }

SpotModes == { <<"F","T","8">>, <<"C","W">>, Unknown }

TargetCalls == { <<>>, <<VK3ABC>>, << <<"v","k","3","a","b","c"," ">> >>, <<K1B>> }

TargetBands ==
    { <<>>, << <<>> >>, << << <<"2","0","M">> >> >>,
      << << <<"4","0","m">>, <<"2","0","m">> >> >> }

TargetModes ==
    { <<>>, << <<>> >>, << << <<"f","t","8">> >> >>, << << <<"C","W">> >> >> }

MatchInputs ==
    {[fn |-> "matches_target",
      x  |-> [spot   |-> [call |-> c, band |-> b, mode |-> m],
              target |-> TargetOf(co, bo, mo)]] :
        c \in SpotCalls, b \in SpotBands, m \in SpotModes,
        co \in TargetCalls, bo \in TargetBands, mo \in TargetModes}

\* One function is given one argument; the listener does not run.
FnInit ==
    /\ \/ arg \in NormalizeInputs
       \/ arg \in ModeInputs
       \/ arg \in BandInputs
       \/ arg \in MatchInputs
    /\ result = None
    /\ cfg = IdleConfig
    /\ pc = "apply"
    /\ clock = 0
    /\ tn = "unbound"
    /\ wire = <<>>
    /\ last_activity = 0
    /\ now = 0
    /\ parsed = None
    /\ ti = 1
    /\ last_spots = [k \in {} |-> 0]
    /\ gate = None
    /\ posts = <<>>
    /\ pause = 0
    /\ exc = "none"
    /\ retried = FALSE
    /\ last_line = 0
    /\ notified = [k \in {} |-> 0]
    /\ undelivered = {}
    /\ line_sends = 0
    /\ text = <<>>
    /\ carried = [k \in {} |-> 0]

\* The variables of the listener.
listener == <<cfg, pc, clock, tn, wire, last_activity, now, parsed, ti, last_spots,
              gate, posts, pause, exc, retried, last_line, notified, undelivered,
              line_sends, text, carried>>

\* normalize_call(x), and normalize_call of what it returned.
ApplyNormalize ==
    /\ arg.fn = "normalize_call"
    /\ result = None
    /\ result' = [value |-> normalize_call(arg.x),
                  again |-> normalize_call(normalize_call(arg.x))]
    /\ UNCHANGED <<arg, listener>>

ApplyExtractMode ==
    /\ arg.fn = "extract_mode"
    /\ result = None
    /\ result' = [value |-> extract_mode(arg.x)]
    /\ UNCHANGED <<arg, listener>>

ApplyFreqToBand ==
    /\ arg.fn = "freq_to_band"
    /\ result = None
    /\ result' = [value |-> freq_to_band(arg.x.text)]
    /\ UNCHANGED <<arg, listener>>

ApplyMatchesTarget ==
    /\ arg.fn = "matches_target"
    /\ result = None
    /\ result' = [value |-> matches_target(arg.x.spot, arg.x.target)]
    /\ UNCHANGED <<arg, listener>>

FnNext ==
    \/ ApplyNormalize
    \/ ApplyExtractMode
    \/ ApplyFreqToBand
    \/ ApplyMatchesTarget

FnSpec == FnInit /\ [][FnNext]_vars

\* --------------------------------------------------------------- claims

\* The loop is in the monitoring part of a session (lines 143-185).
Monitoring == pc \in {"read", "targets", "timers"}

\* The step called should_send.
GateCalled == gate' # None

\* The step invoked the Notifier (send_telegram).
NotifierInvoked == gate' # None /\ gate'.ret

\* C1: while the session is Monitoring, silence longer than the max-inactive
\* interval makes the loop close the session and leave Monitoring: whenever
\* the loop is back at the read of an open session, the clock reading of the
\* iteration just finished is at most max_inactive after the last delivered
\* line.
C1_WatchdogTriggers ==
    (pc = "read" /\ tn = "open") => now - last_line <= max_inactive

\* The watchdog branch never runs: no session is ever closed.
WatchdogNeverCloses == tn # "closed"

\* C2: should_send answers true for a call without a record, false for a
\* record younger than the window, true for a record at least one window old;
\* so it is false at every time within the window after the last Notifier
\* invocation for the call and true from one window after it.
C2_DedupDecision ==
    [][GateCalled =>
        LET c == gate'.call
            t == gate'.at
        IN  /\ t = clock
            /\ gate'.known = Has(last_spots, c)
            /\ ~Has(last_spots, c) => gate'.ret
            /\ (Has(last_spots, c) /\ t - last_spots[c] < dedup_min) => ~gate'.ret
            /\ (Has(last_spots, c) /\ t - last_spots[c] >= dedup_min) => gate'.ret
            /\ (Has(notified, c) /\ t - notified[c] < dedup_min) => ~gate'.ret
            /\ (Has(notified, c) /\ t - notified[c] >= dedup_min) => gate'.ret
    ]_vars

\* A spot is suppressed inside a window of at least one minute.
C2_Witness ==
    /\ gate # None
    /\ ~gate.ret
    /\ dedup_min >= 1
    /\ gate.at - last_spots[gate.call] = dedup_min - 1

\* C3: a should_send call that answers false leaves the dedup map as it was;
\* one that answers true sets the call's entry to the clock reading and
\* leaves every other entry as it was; nothing else changes the map.
C3_DedupFrame ==
    [][IF GateCalled
       THEN IF gate'.ret
            THEN /\ DOMAIN last_spots' = DOMAIN last_spots \cup {gate'.call}
                 /\ last_spots'[gate'.call] = gate'.at
                 /\ \A k \in DOMAIN last_spots \ {gate'.call} : last_spots'[k] = last_spots[k]
            ELSE last_spots' = last_spots
       ELSE last_spots' = last_spots
    ]_vars

\* A spot is suppressed some time after its record was written, while
\* another call has a record too.
C3_Witness ==
    /\ gate # None
    /\ ~gate.ret
    /\ gate.at > last_spots[gate.call]
    /\ Cardinality(DOMAIN last_spots) >= 2

\* C4 as claimed: for a window of at least one minute, a Notifier invocation
\* for a call comes at least one window after the previous one for that
\* call, and it is the first invocation for its line.
C4_OnePerLine ==
    [][(NotifierInvoked /\ dedup_min >= 1) =>
        /\ Has(notified, gate'.call) => gate'.at - notified[gate'.call] >= dedup_min
        /\ line_sends = 0
    ]_vars

\* C4 as amended: for a window of at least one minute, a Notifier invocation
\* for a call comes at least one window after the previous one for that
\* call; a line gets a further invocation only when the notification calls
\* made for it have blocked for at least the window since it was read.
C4_WindowBetweenSends ==
    [][(NotifierInvoked /\ dedup_min >= 1) =>
        /\ Has(notified, gate'.call) => gate'.at - notified[gate'.call] >= dedup_min
        /\ line_sends >= 1 => gate'.at - now >= dedup_min
    ]_vars

\* A call is notified again once the window has passed.
C4_Witness ==
    /\ gate # None
    /\ gate.ret
    /\ gate.known
    /\ dedup_min >= 1
    /\ line_sends = 1

\* The failures of the transport: connecting, writing, reading.
TransportFailures == {"connect", "write", "read"}

\* C5: a failure raised while connecting, writing or reading puts the loop in
\* the exception handler and never out of dxcluster_listener; once inside
\* the outer loop the listener never terminates; and, the handler's sleep
\* returning, every failure is followed by a new connect attempt.
C5_FailuresRecovered ==
    /\ [](exc \in TransportFailures => pc = "except")
    /\ [][(pc \in TryBlock \cup {"except"}) => (pc' \in TryBlock \cup {"except"})]_vars
    /\ (pc = "except") ~> (pc = "connect")

\* A keepalive write fails in a session opened after an earlier failure.
C5_Witness ==
    /\ pc = "except"
    /\ exc = "write"
    /\ retried
    /\ Len(wire) = 5

\* C6: every entry into Connecting other than the first is made by the
\* exception handler, right after its pause of 10 seconds.
C6_BackoffBeforeReconnect ==
    [][(pc' = "connect" /\ pc # "connect") =>
        \/ pc = "start"
        \/ pc = "except" /\ pause' = 10
    ]_vars

\* The loop is about to reconnect, after the pause, from a session that had
\* been logged in.
C6_Witness ==
    /\ pc = "connect"
    /\ pause = 10
    /\ tn = "open"
    /\ Len(wire) >= 5

\* C7: the commands written on a session are the login line, set/skimmer,
\* set/ft8, set/announce on, set/ve7cc 1, in this order, and after them only
\* sh/dx; no read or line processing happens before all five are written;
\* and a session being logged in has fewer than five commands of its own
\* written (the sequence starts again on every connection).
C7_LoginOrder ==
    LET expected == << <<mycall, "\n">>, <<"set/skimmer", "\n">>, <<"set/ft8", "\n">>,
                       <<"set/announce on", "\n">>, <<"set/ve7cc 1", "\n">> >>
    IN  /\ \A i \in DOMAIN wire :
             IF i <= 5 THEN wire[i] = expected[i] ELSE wire[i] = <<"sh/dx", "\n">>
        /\ Monitoring => Len(wire) >= 5
        /\ pc = "login" => Len(wire) < 5

\* A line is being dispatched on a session opened after a reconnect, the
\* login sequence written again in full.
C7_Witness ==
    /\ pc = "targets"
    /\ retried
    /\ Len(wire) = 5

\* C8 as claimed: an iteration of the monitoring loop that ends without a
\* failure has written sh/dx if the time since the last activity, at its
\* clock reading, had reached the keepalive interval, whatever the read
\* delivered, and has written nothing otherwise.
C8_KeepaliveEveryIteration ==
    [][(pc \in {"read", "timers"} /\ pc' = "read") =>
        IF now' - last_activity >= keepalive_interval
        THEN wire' = Append(wire, <<"sh/dx", "\n">>)
        ELSE wire' = wire
    ]_vars

\* The same for the iterations that reach the keepalive test (every line but
\* a blank one, and a read that times out).
KeepaliveWhenTested ==
    [][(pc = "timers" /\ pc' = "read") =>
        IF now' - last_activity >= keepalive_interval
        THEN wire' = Append(wire, <<"sh/dx", "\n">>)
        ELSE wire' = wire
    ]_vars

\* A recipient's delivery failed in this step.
DeliveryFailed == \E i \in DOMAIN posts' : posts'[i].result = "fail"

\* C9: when delivery to a recipient fails, every recipient is still tried, in
\* order; nothing is raised and the session stays Monitoring; the call's
\* dedup record, written before the send, is in place; and a later spot of
\* the call inside the window is suppressed although the delivery failed.
C9_DeliveryFailureIsolated ==
    [][/\ DeliveryFailed =>
            /\ [i \in DOMAIN posts' |-> posts'[i].chat_id]
                 = (IF chat.list THEN chat.items ELSE <<chat.value>>)
            /\ pc' \in {"targets", "timers"}
            /\ exc' = "none"
            /\ tn' = tn
            /\ Has(last_spots', gate'.call)
            /\ last_spots'[gate'.call] = gate'.at
       /\ (/\ GateCalled
           /\ gate'.call \in undelivered
           /\ gate'.at - notified[gate'.call] < dedup_min) => ~gate'.ret
    ]_vars

\* A spot is suppressed inside the window of a notification whose delivery
\* had failed.
C9_Witness ==
    /\ gate # None
    /\ ~gate.ret
    /\ gate.call \in undelivered
    /\ Monitoring

\* The first recipient's delivery failed and the second was still tried.
SecondRecipientTried ==
    /\ Len(posts) = 2
    /\ posts[1].result = "fail"
    /\ posts[2].result = "ok"
    /\ Monitoring

\* C10: with a required setting (host, token, chat recipients, targets)
\* missing, the system fails at startup and never enters the connect loop.
C10_NoRunWithoutRequired ==
    (\E k \in RequiredKeys : ~Has(cfg, k)) => pc \in {"start", "crashed"}

\* With the token, the chat recipients or the targets missing it does.
NoRunWithoutIndexedKeys ==
    (\E k \in {"telegram_token", "chat_id", "targets"} : ~Has(cfg, k))
        => pc \in {"start", "crashed"}

\* The text is a structured spot: it starts with CC and its carets delimit
\* at least seven fields.
SpotText(t) ==
    /\ Len(t) >= 2 /\ t[1] = "C" /\ t[2] = "C"
    /\ Cardinality({i \in DOMAIN t : t[i] = "^"}) >= 6

\* The line of the end-to-end scenario, as the loop sees it.
E2EText ==
    <<"C","C","^","1","4","0","7","4",".","0","^","V","K","3","A","B","C","^",
      "2","0","2","4","-","0","1","-","0","1","^","1","0",":","0","0","^",
      "F","T","8"," ","C","Q","^","W","1","A","W">>

E2ENotified ==
    /\ cfg = E2EConfig
    /\ posts # <<>>
    /\ posts[1].text.Band = <<"2","0","m">>

\* The step opened a new transport session.
SessionOpened == pc = "connect" /\ pc' = "login" /\ tn' = "open"

\* C12 as claimed: when a new session is opened, the Telnet object bound to
\* tn until then holds no open socket (there was none, or it was closed), so
\* that the new session is the only one open.
C12_SingleSession ==
    [][SessionOpened => tn # "open"]_vars

\* The same for a session opened before any failure was handled: only the
\* exception handler leaves an open session behind.
SingleSessionUnlessFailed ==
    [][(SessionOpened /\ ~retried) => tn # "open"]_vars

\* A new session is being opened while the session that failed is still
\* open.
SessionOpenedOverOpen ==
    /\ pc = "connect"
    /\ tn = "open"
    /\ retried
    /\ ~HostIsNone

\* The function named has been applied to its argument.
Applied(fn) == arg.fn = fn /\ result # None

\* C13: matches_target is true exactly when the normalized calls are equal,
\* the target's band list is empty (or absent) or holds the spot's band
\* compared upper-cased, and the same for the mode list; so a call mismatch
\* rejects whatever the band and mode, and a target without band and mode
\* entries accepts every band and mode of the matching call, the sentinel ?
\* included.
C13_MatchesTarget ==
    Applied("matches_target") =>
        LET spot   == arg.x.spot
            target == arg.x.target
            tcall  == IF "call" \in DOMAIN target THEN target["call"] ELSE <<>>
            tbands == IF "bands" \in DOMAIN target THEN target["bands"] ELSE <<>>
            tmodes == IF "modes" \in DOMAIN target THEN target["modes"] ELSE <<>>
            same   == normalize_call(spot.call) = normalize_call(tcall)
            bandOk == tbands = <<>> \/ \E i \in DOMAIN tbands : upper(tbands[i]) = upper(spot.band)
            modeOk == tmodes = <<>> \/ \E i \in DOMAIN tmodes : upper(tmodes[i]) = upper(spot.mode)
        IN  /\ result.value = (same /\ bandOk /\ modeOk)
            /\ ~same => result.value = FALSE
            /\ (same /\ tbands = <<>> /\ tmodes = <<>>) => result.value = TRUE

\* A spot with the sentinel band is accepted by a target that lists no
\* bands, lists a mode in lower case, and writes the call differently.
C13_Witness ==
    /\ Applied("matches_target")
    /\ result.value = TRUE
    /\ arg.x.spot = [call |-> <<"v","k","3","-","a","b","c">>, band |-> <<"?">>,
                     mode |-> <<"F","T","8">>]
    /\ arg.x.target = [call  |-> <<"v","k","3","a","b","c"," ">>,
                       bands |-> <<>>,
                       modes |-> << <<"f","t","8">> >>]

\* What is left of one character of the call alphabet: the letter in upper
\* case, the digit, the slash, and nothing of the dash, the space and ?.
Kept(ch) ==
    CASE ch = "v" -> <<"V">>
      [] ch = "K" -> <<"K">>
      [] ch = "3" -> <<"3">>
      [] ch = "/" -> <<"/">>
      [] OTHER    -> <<>>

\* What is left of a text, character by character, in order.
RECURSIVE Cleaned(_)
Cleaned(x) == IF x = <<>> THEN <<>> ELSE Kept(Head(x)) \o Cleaned(Tail(x))

\* C14: normalize_call applied to its own result returns it unchanged; the
\* result holds only upper-case letters, digits and slashes; and it is the
\* argument upper-cased with every other character removed, in order.
C14_NormalizeIdempotent ==
    Applied("normalize_call") =>
        /\ result.again = result.value
        /\ \A i \in DOMAIN result.value :
             result.value[i] \in Range(UpperLetters) \cup Range(Digits) \cup {"/"}
        /\ result.value = Cleaned(arg.x)

\* A text with a lower-case letter, a removed character and an upper-case
\* letter has been normalized.
C14_Witness ==
    /\ Applied("normalize_call")
    /\ arg.x = <<"v", "-", "K">>
    /\ result.value = <<"V", "K">>

\* The table of the specification: low, high, band.
BandTable ==
    { <<1800, 2000, <<"1","6","0","m">> >>,   <<3500, 3800, <<"8","0","m">> >>,
      <<5300, 5400, <<"6","0","m">> >>,       <<7000, 7200, <<"4","0","m">> >>,
      <<10100, 10150, <<"3","0","m">> >>,     <<14000, 14350, <<"2","0","m">> >>,
      <<18068, 18168, <<"1","7","m">> >>,     <<21000, 21450, <<"1","5","m">> >>,
      <<24890, 24990, <<"1","2","m">> >>,     <<28000, 29700, <<"1","0","m">> >>,
      <<50000, 54000, <<"6","m">> >> }

\* C15: freq_to_band returns, for every frequency text, the band of the one
\* range of the table that holds the frequency, both end points included,
\* and ? when no range holds it or the text is not a number; the ranges of
\* the code are eleven and pairwise disjoint.
C15_FreqToBand ==
    /\ Len(bands) = 11
    /\ \A i, j \in DOMAIN bands :
         i # j => (bands[i][2] < bands[j][1] \/ bands[j][2] < bands[i][1])
    /\ Applied("freq_to_band") =>
         LET f    == arg.x
             rows == {r \in BandTable :
                        /\ f.valid /\ ~f.neg
                        /\ r[1] <= f.n
                        /\ f.n < r[2] \/ (f.n = r[2] /\ ~f.frac)}
             whole == f.valid /\ ~f.neg /\ ~f.frac
         IN  /\ Cardinality(rows) <= 1
             /\ \A r \in rows : result.value = r[3]
             /\ rows = {} => result.value = <<"?">>
             /\ (whole /\ f.n \in {14000, 14350}) => result.value = <<"2","0","m">>
             /\ (whole /\ f.n \in {14351, 3801, 0}) => result.value = <<"?">>
             /\ ~f.valid => result.value = <<"?">>

\* The upper end point of the 20m range, written with a fraction of zero,
\* has been classified.
C15_Witness ==
    /\ Applied("freq_to_band")
    /\ arg.x.text = <<"1","4","3","5","0",".","0">>
    /\ result.value = <<"2","0","m">>

\* A text that is not a number has been classified.
JunkClassified ==
    /\ Applied("freq_to_band")
    /\ arg.x.text = <<"1","4","O","7","4">>
    /\ result.value = <<"?">>

\* The comment, read without regard to case, holds the keyword.
Mentions(comment, keyword) ==
    \E i \in 1..Len(comment) :
        /\ i + Len(keyword) - 1 <= Len(comment)
        /\ \A j \in 1..Len(keyword) : UpperChar(comment[i + j - 1]) = keyword[j]

\* C16: extract_mode returns CW when the comment mentions CW; otherwise FT8
\* when it mentions FT8; otherwise RTTY when it mentions RTTY; otherwise SSB
\* when it mentions SSB, USB or LSB; otherwise ?; wherever in the comment
\* the keywords stand.
C16_ModePriority ==
    Applied("extract_mode") =>
        result.value =
            (IF Mentions(arg.x, <<"C","W">>) THEN <<"C","W">>
             ELSE IF Mentions(arg.x, <<"F","T","8">>) THEN <<"F","T","8">>
             ELSE IF Mentions(arg.x, <<"R","T","T","Y">>) THEN <<"R","T","T","Y">>
             ELSE IF \E k \in { <<"S","S","B">>, <<"U","S","B">>, <<"L","S","B">> } :
                        Mentions(arg.x, k)
                  THEN <<"S","S","B">>
             ELSE <<"?">>)

\* A comment that names FT8 before CW has been classified as CW.
C16_Witness ==
    /\ Applied("extract_mode")
    /\ arg.x = <<"F","T","8"," ","c","w">>
    /\ result.value = <<"C","W">>

\* A comment that names a sideband before RTTY has been classified as RTTY.
SidebandBeforeRtty ==
    /\ Applied("extract_mode")
    /\ arg.x = <<"U","S","B","r","t","t","y">>
    /\ result.value = <<"R","T","T","Y">>

\* The read of this step delivered a line (a read that times out leaves
\* last_line behind the clock).
LineDelivered == pc = "read" /\ pc' # "except" /\ last_line' = clock'

\* C17 as claimed: a step that reads a line, whatever the line, sets
\* last_activity to the clock reading of the read and goes on to the for
\* loop or to the timers; and the loop comes back to the read only from the
\* timers.
C17_EveryLineIsActivity ==
    [][/\ LineDelivered => (last_activity' = now' /\ pc' \in {"targets", "timers"})
       /\ (Monitoring /\ pc' = "read") => pc = "timers"
    ]_vars

\* The same for the lines that are not blank (text is empty after a blank
\* line only).
ActivityOnNonBlankLines ==
    [][/\ (LineDelivered /\ text' # <<>>) =>
            (last_activity' = now' /\ pc' \in {"targets", "timers"})
       /\ (Monitoring /\ pc' = "read" /\ ~LineDelivered) => pc = "timers"
       /\ pc = "targets" => pc' \in {"targets", "timers"}
    ]_vars

\* A blank line was read some time after the last activity, and the loop is
\* back at the read with last_activity as it was.
BlankLineIgnored ==
    /\ pc = "read"
    /\ last_line = clock
    /\ now = clock
    /\ last_activity < now
    /\ text = <<>>
    /\ Len(wire) = 5

\* C18: no step outside the for loop over the targets changes the dedup map
\* (not a failure, the handler and its pause, a connect or the login); no
\* step removes an entry or sets it back; and a call with a record when the
\* handler last ran is suppressed at every later time less than one window
\* after that record.
C18_DedupSurvivesReconnect ==
    [][/\ pc # "targets" => last_spots' = last_spots
       /\ \A k \in DOMAIN last_spots :
            k \in DOMAIN last_spots' /\ last_spots'[k] >= last_spots[k]
       /\ (/\ GateCalled
           /\ Has(carried, gate'.call)
           /\ gate'.at - carried[gate'.call] < dedup_min) => ~gate'.ret
    ]_vars

\* On a session logged in after a failure, a spot is suppressed by the record
\* its call had when the handler ran, some time after that record was made.
C18_Witness ==
    /\ gate # None
    /\ ~gate.ret
    /\ retried
    /\ Len(wire) >= 5
    /\ Has(carried, gate.call)
    /\ carried[gate.call] = last_spots[gate.call]
    /\ gate.at > carried[gate.call]

\* C19 as claimed: the Notifier is never invoked for a spot whose call
\* normalizes to the empty string, whatever the targets.
C19_NoNotificationWithoutCall ==
    [][NotifierInvoked => normalize_call(parsed.call) # <<>>]_vars

\* The same when every target names a call that normalizes to something.
NoNotificationWithoutCallForNamedTargets ==
    [][(/\ NotifierInvoked
        /\ \A i \in DOMAIN targets :
             /\ Has(targets[i], "call")
             /\ normalize_call(targets[i]["call"]) # <<>>)
       => normalize_call(parsed.call) # <<>>]_vars

\* A spot with an empty call field has been notified: its station is the
\* sentinel and its dedup record is kept under the empty call.
EmptyCallNotified ==
    /\ posts # <<>>
    /\ posts[1].text.Station = <<"?">>
    /\ Has(last_spots, <<>>)

====
